---------------------------- MODULE Spec2Model ----------------------------
(*************************************************************************)
(* The bone-name auto-mapping resolver of src/src/lib/boneMapping.ts:    *)
(* the pattern registry, the name normalizer / tokenizer, and the        *)
(* four-pass matching engine autoMapBones, one step per iteration of a   *)
(* pass's loop over jointsToMap.                                         *)
(*                                                                       *)
(* Names are TLA+ strings; a character is a string of length one.        *)
(* Confidences are kept in tenths (1.0 is 10, 0.9 is 9, ...).            *)
(*************************************************************************)
EXTENDS Integers, Sequences, FiniteSets, TLC

(* ------------------------------ bounds ------------------------------ *)

\* longest generic boneNames list drawn by Init
MaxBones == 2
\* longest generic allowedJoints list drawn by Init
MaxAllowed == 2

(* ------------------------- pattern registry ------------------------- *)

BONE_PATTERNS ==
  [
    torso |-> <<
      "torso", "Spine", "spine", "Spine1", "spine1", "Spine2", "spine2",
      "mixamorig:Spine", "mixamorigSpine", "Torso", "Chest", "chest", "Hips",
      "hips", "upperChest", "UpperChest", "spine_01", "spine_02", "spine_03",
      "DEF-spine.003", "DEF-spine.004" >>,
    neckYaw |-> <<
      "neckYaw", "Neck", "neck", "mixamorig:Neck", "mixamorigNeck",
      "neck_01", "DEF-spine.006" >>,
    neckPitch |-> <<
      "neckPitch", "Head", "head", "mixamorig:Head", "mixamorigHead", "head",
      "DEF-spine.007" >>,
    leftShoulderPitch |-> <<
      "leftShoulderPitch", "LeftArm", "mixamorig:LeftArm",
      "mixamorigLeftArm", "Left_Arm", "L_Arm", "Arm.L", "shoulder.L",
      "LeftUpperArm", "leftUpperArm", "upperarm_l", "DEF-upper_arm.L",
      "LeftArm", "lShldr" >>,
    leftShoulderYaw |-> <<
      "leftShoulderYaw", "LeftShoulder", "mixamorig:LeftShoulder",
      "mixamorigLeftShoulder", "Left_Shoulder", "L_Shoulder", "leftShoulder",
      "clavicle_l", "DEF-shoulder.L" >>,
    leftElbow |-> <<
      "leftElbow", "LeftForeArm", "LeftElbow", "mixamorig:LeftForeArm",
      "mixamorigLeftForeArm", "Left_ForeArm", "L_ForeArm", "forearm.L",
      "LeftLowerArm", "leftLowerArm", "Left_Elbow", "L_Elbow", "lowerarm_l",
      "DEF-forearm.L", "LeftForeArm", "lForeArm" >>,
    leftWrist |-> <<
      "leftWrist", "LeftHand", "LeftWrist", "mixamorig:LeftHand",
      "mixamorigLeftHand", "Left_Hand", "L_Hand", "hand.L", "leftHand",
      "hand_l", "DEF-hand.L" >>,
    leftGrip |-> <<
      "leftGrip", "LeftHandIndex1", "LeftHandThumb1",
      "mixamorig:LeftHandIndex1", "mixamorigLeftHandIndex1", "Left_Finger",
      "L_Finger", "LeftGrip", "LeftHandIndex", "LeftFinger",
      "leftIndexProximal", "index_01_l", "DEF-f_index.01.L" >>,
    rightShoulderPitch |-> <<
      "rightShoulderPitch", "RightArm", "mixamorig:RightArm",
      "mixamorigRightArm", "Right_Arm", "R_Arm", "Arm.R", "shoulder.R",
      "RightUpperArm", "rightUpperArm", "upperarm_r", "DEF-upper_arm.R",
      "RightArm", "rShldr" >>,
    rightShoulderYaw |-> <<
      "rightShoulderYaw", "RightShoulder", "mixamorig:RightShoulder",
      "mixamorigRightShoulder", "Right_Shoulder", "R_Shoulder",
      "rightShoulder", "clavicle_r", "DEF-shoulder.R" >>,
    rightElbow |-> <<
      "rightElbow", "RightForeArm", "RightElbow", "mixamorig:RightForeArm",
      "mixamorigRightForeArm", "Right_ForeArm", "R_ForeArm", "forearm.R",
      "RightLowerArm", "rightLowerArm", "Right_Elbow", "R_Elbow",
      "lowerarm_r", "DEF-forearm.R", "RightForeArm", "rForeArm" >>,
    rightWrist |-> <<
      "rightWrist", "RightHand", "RightWrist", "mixamorig:RightHand",
      "mixamorigRightHand", "Right_Hand", "R_Hand", "hand.R", "rightHand",
      "hand_r", "DEF-hand.R" >>,
    rightGrip |-> <<
      "rightGrip", "RightHandIndex1", "RightHandThumb1",
      "mixamorig:RightHandIndex1", "mixamorigRightHandIndex1",
      "Right_Finger", "R_Finger", "RightGrip", "RightHandIndex",
      "RightFinger", "rightIndexProximal", "index_01_r", "DEF-f_index.01.R" >>,
    leftHipPitch |-> <<
      "leftHipPitch", "LeftUpLeg", "mixamorig:LeftUpLeg",
      "mixamorigLeftUpLeg", "Left_UpLeg", "L_UpLeg", "thigh.L",
      "LeftUpperLeg", "leftUpperLeg", "LeftHip", "thigh_l", "DEF-thigh.L",
      "LeftUpLeg", "lThigh" >>,
    leftHipYaw |-> <<
      "leftHipYaw", "LeftHip", "mixamorig:LeftUpLeg", "mixamorigLeftUpLeg",
      "Left_Hip", "L_Hip", "leftHip" >>,
    leftKnee |-> <<
      "leftKnee", "LeftLeg", "LeftKnee", "mixamorig:LeftLeg",
      "mixamorigLeftLeg", "Left_Leg", "L_Leg", "shin.L", "LeftLowerLeg",
      "leftLowerLeg", "calf_l", "DEF-shin.L", "LeftLeg", "lShin" >>,
    leftAnkle |-> <<
      "leftAnkle", "LeftFoot", "LeftAnkle", "mixamorig:LeftFoot",
      "mixamorigLeftFoot", "Left_Foot", "L_Foot", "foot.L", "LeftToeBase",
      "leftFoot", "foot_l", "DEF-foot.L" >>,
    rightHipPitch |-> <<
      "rightHipPitch", "RightUpLeg", "mixamorig:RightUpLeg",
      "mixamorigRightUpLeg", "Right_UpLeg", "R_UpLeg", "thigh.R",
      "RightUpperLeg", "rightUpperLeg", "RightHip", "thigh_r", "DEF-thigh.R",
      "RightUpLeg", "rThigh" >>,
    rightHipYaw |-> <<
      "rightHipYaw", "RightHip", "mixamorig:RightUpLeg",
      "mixamorigRightUpLeg", "Right_Hip", "R_Hip", "rightHip" >>,
    rightKnee |-> <<
      "rightKnee", "RightLeg", "RightKnee", "mixamorig:RightLeg",
      "mixamorigRightLeg", "Right_Leg", "R_Leg", "shin.R", "RightLowerLeg",
      "rightLowerLeg", "calf_r", "DEF-shin.R", "RightLeg", "rShin" >>,
    rightAnkle |-> <<
      "rightAnkle", "RightFoot", "RightAnkle", "mixamorig:RightFoot",
      "mixamorigRightFoot", "Right_Foot", "R_Foot", "foot.R", "RightToeBase",
      "rightFoot", "foot_r", "DEF-foot.R" >>
  ]

\* Object.keys(BONE_PATTERNS): the keys in declaration order
ALL_JOINT_KEYS ==
  << "torso", "neckYaw", "neckPitch",
     "leftShoulderPitch", "leftShoulderYaw", "leftElbow", "leftWrist",
     "leftGrip",
     "rightShoulderPitch", "rightShoulderYaw", "rightElbow", "rightWrist",
     "rightGrip",
     "leftHipPitch", "leftHipYaw", "leftKnee", "leftAnkle",
     "rightHipPitch", "rightHipYaw", "rightKnee", "rightAnkle" >>

(* ----------------------- characters and strings --------------------- *)

UpperLetters == "ABCDEFGHIJKLMNOPQRSTUVWXYZ"
LowerLetters == "abcdefghijklmnopqrstuvwxyz"

CharAt(s, i) == SubSeq(s, i, i)

\* the character class [A-Z]
IsUpper(c) == \E i \in 1..Len(UpperLetters) : CharAt(UpperLetters, i) = c
\* the character class [a-z]
IsLower(c) == \E i \in 1..Len(LowerLetters) : CharAt(LowerLetters, i) = c
\* the character class [_.\-: ]
IsSeparator(c) == c \in {"_", ".", "-", ":", " "}

\* String.prototype.toLowerCase on one character
LowerChar(c) ==
  IF IsUpper(c)
    THEN CharAt(LowerLetters,
                CHOOSE i \in 1..Len(UpperLetters) : CharAt(UpperLetters, i) = c)
    ELSE c

RECURSIVE toLowerCase(_)
toLowerCase(s) ==
  IF Len(s) = 0 THEN ""
  ELSE LowerChar(CharAt(s, 1)) \o toLowerCase(SubSeq(s, 2, Len(s)))

StartsWith(s, p) == Len(s) >= Len(p) /\ SubSeq(s, 1, Len(p)) = p

DropFirst(s, n) == SubSeq(s, n + 1, Len(s))

\* faulty variant: mixamorig is a prefix only with its ':' or '_'
PrefixMatchLenNeedsSeparator(name) ==
  IF \E p \in {"mixamorig:", "mixamorig_"} : StartsWith(name, p) THEN 10
  ELSE IF \E p \in {"DEF-", "ORG-", "MCH-"} : StartsWith(name, p) THEN 4
  ELSE 0

\* PREFIX_REGEX = /^(mixamorig[_:]?|DEF-|ORG-|MCH-)/ : the length of its match
\* at the start of name, 0 when it does not match
PrefixMatchLen(name) ==
  IF StartsWith(name, "mixamorig")
    THEN IF Len(name) > 9 /\ CharAt(name, 10) \in {"_", ":"} THEN 10 ELSE 9
  ELSE IF \E p \in {"DEF-", "ORG-", "MCH-"} : StartsWith(name, p) THEN 4
  ELSE 0

stripPrefix(name) == DropFirst(name, PrefixMatchLen(name))

\* faulty variant: the space is not among the separators that are deleted
RECURSIVE RemoveSeparatorsButSpace(_)
RemoveSeparatorsButSpace(s) ==
  IF Len(s) = 0 THEN ""
  ELSE (IF CharAt(s, 1) \in {"_", ".", "-", ":"} THEN "" ELSE CharAt(s, 1))
         \o RemoveSeparatorsButSpace(SubSeq(s, 2, Len(s)))

\* .replace(/[_.\-: ]/g, '')
RECURSIVE RemoveSeparators(_)
RemoveSeparators(s) ==
  IF Len(s) = 0 THEN ""
  ELSE (IF IsSeparator(CharAt(s, 1)) THEN "" ELSE CharAt(s, 1))
         \o RemoveSeparators(SubSeq(s, 2, Len(s)))

normalizeBoneName(name) == RemoveSeparators(toLowerCase(stripPrefix(name)))

\* .split(sep) for a one-character separator pattern that may repeat
\* (/[_.\-: ]+/ with IsSep = IsSeparator) or not ('\0'): the pieces between
\* the separator runs, empty pieces at either end included
RECURSIVE SplitFrom(_, _, _, _)
SplitFrom(s, i, cur, plus) ==
  IF i > Len(s) THEN << cur >>
  ELSE IF plus = "sep" /\ IsSeparator(CharAt(s, i))
    THEN IF i > 1 /\ IsSeparator(CharAt(s, i - 1))
           THEN SplitFrom(s, i + 1, cur, plus)
           ELSE << cur >> \o SplitFrom(s, i + 1, "", plus)
  ELSE IF plus = "nul" /\ CharAt(s, i) = "|"
    THEN << cur >> \o SplitFrom(s, i + 1, "", plus)
  ELSE SplitFrom(s, i + 1, cur \o CharAt(s, i), plus)

SplitSeparators(s) == SplitFrom(s, 1, "", "sep")
SplitNul(s) == SplitFrom(s, 1, "", "nul")

\* .replace(/([a-z])([A-Z])/g, '$1\0$2'); the NUL is written "|", which is
\* no character of a bone name or an alias here
RECURSIVE SplitLowerUpper(_)
SplitLowerUpper(s) ==
  IF Len(s) < 2 THEN s
  ELSE IF IsLower(CharAt(s, 1)) /\ IsUpper(CharAt(s, 2))
    THEN CharAt(s, 1) \o "|" \o CharAt(s, 2) \o SplitLowerUpper(SubSeq(s, 3, Len(s)))
  ELSE CharAt(s, 1) \o SplitLowerUpper(SubSeq(s, 2, Len(s)))

\* the length of the run of [A-Z] at the start of s
RECURSIVE UpperRunLen(_)
UpperRunLen(s) ==
  IF Len(s) > 0 /\ IsUpper(CharAt(s, 1))
    THEN 1 + UpperRunLen(SubSeq(s, 2, Len(s)))
    ELSE 0

\* .replace(/([A-Z]+)([A-Z][a-z])/g, '$1\0$2'): a match starts at the first
\* letter of a run of two or more capitals that a lowercase letter follows,
\* [A-Z]+ backs off to leave the run's last capital to the second group
RECURSIVE SplitUpperRun(_)
SplitUpperRun(s) ==
  IF Len(s) = 0 THEN ""
  ELSE LET n == UpperRunLen(s) IN
    IF n >= 2 /\ Len(s) > n /\ IsLower(CharAt(s, n + 1))
      THEN SubSeq(s, 1, n - 1) \o "|" \o SubSeq(s, n, n + 1)
             \o SplitUpperRun(SubSeq(s, n + 2, Len(s)))
      ELSE CharAt(s, 1) \o SplitUpperRun(SubSeq(s, 2, Len(s)))

\* faulty variant: a part is not split at its case changes
CamelTokensUnsplit(part) == << toLowerCase(part) >>

\* the inner loop of tokenize: the non-empty camelParts, lowercased
CamelTokens(part) ==
  LET camelParts == SplitNul(SplitUpperRun(SplitLowerUpper(part)))
      kept == SelectSeq(camelParts, LAMBDA cp : cp # "")
  IN [i \in 1..Len(kept) |-> toLowerCase(kept[i])]

RECURSIVE ConcatAll(_)
ConcatAll(ss) == IF Len(ss) = 0 THEN << >> ELSE Head(ss) \o ConcatAll(Tail(ss))

\* faulty variant: the rig prefix is not removed before the name is split
tokenizeKeepsPrefix(name) ==
  LET parts == SelectSeq(SplitSeparators(name), LAMBDA p : p # "")
  IN ConcatAll([i \in 1..Len(parts) |-> CamelTokens(parts[i])])

tokenize(name) ==
  LET parts == SelectSeq(SplitSeparators(stripPrefix(name)), LAMBDA p : p # "")
  IN ConcatAll([i \in 1..Len(parts) |-> CamelTokens(parts[i])])

\* faulty variant: every pattern token occurs somewhere among the bone tokens
wordBoundaryMatchAnywhere(patternTokens, boneTokens) ==
  /\ Len(patternTokens) # 0
  /\ Len(boneTokens) # 0
  /\ Len(patternTokens) <= Len(boneTokens)
  /\ \A i \in 1..Len(patternTokens) :
       \E k \in 1..Len(boneTokens) : boneTokens[k] = patternTokens[i]

wordBoundaryMatch(patternTokens, boneTokens) ==
  /\ Len(patternTokens) # 0
  /\ Len(boneTokens) # 0
  /\ Len(patternTokens) <= Len(boneTokens)
  /\ \E start \in 0..(Len(boneTokens) - Len(patternTokens)) :
       \A i \in 1..Len(patternTokens) : boneTokens[start + i] = patternTokens[i]

STRUCTURAL_NAMES ==
  { "scene", "auxscene", "root", "armature", "rootnode", "sketchfab_model",
    "skeleton", "rig", "metarig", "object", "gltf_sceneroottransform" }

isStructuralBone(name) == toLowerCase(name) \in STRUCTURAL_NAMES

(* --------------------- preprocessed pattern data -------------------- *)

\* one PreprocessedPattern / PreprocessedBone
Preprocess(name) ==
  [ original   |-> name,
    stripped   |-> stripPrefix(name),
    normalized |-> normalizeBoneName(name),
    tokens     |-> tokenize(name) ]

\* the seen-set loop: the first occurrence of every string, order kept
RECURSIVE Dedupe(_)
Dedupe(names) ==
  IF Len(names) = 0 THEN << >>
  ELSE LET front == Dedupe(SubSeq(names, 1, Len(names) - 1))
           last  == names[Len(names)]
       IN IF \E i \in 1..Len(front) : front[i] = last
            THEN front
            ELSE Append(front, last)

\* the module-level cache, built once when the module is loaded
preprocessedPatterns ==
  [ jointKey \in DOMAIN BONE_PATTERNS |->
      LET aliases == Dedupe(BONE_PATTERNS[jointKey])
      IN [i \in 1..Len(aliases) |-> Preprocess(aliases[i])] ]

preprocessBones(names) == [i \in 1..Len(names) |-> Preprocess(names[i])]

(* ------------------------ the four pass rules ----------------------- *)

PassNames == << "exact", "prefix-stripped", "normalized", "word-boundary" >>

\* confidence of each pass, in tenths
ConfExact == 10
ConfPrefixStripped == 9
ConfNormalized == 8
ConfWordBoundary == 6

\* faulty variant: the confidences of passes 2 and 3 exchanged
ConfidenceSwapped(k) ==
  CASE k = 1 -> ConfExact
    [] k = 2 -> ConfNormalized
    [] k = 3 -> ConfPrefixStripped
    [] k = 4 -> ConfWordBoundary

Confidence(k) ==
  CASE k = 1 -> ConfExact
    [] k = 2 -> ConfPrefixStripped
    [] k = 3 -> ConfNormalized
    [] k = 4 -> ConfWordBoundary

MinOf(S) == CHOOSE i \in S : \A j \in S : i <= j
MaxOf(S) == CHOOSE i \in S : \A j \in S : i >= j

\* boneByName: the last bone stored under a name, 0 for none
boneByName(bns, name) ==
  LET at == {k \in 1..Len(bns) : bns[k].original = name}
  IN IF at = {} THEN 0 ELSE MaxOf(at)

\* boneByNormalized: the bones of one normalized form, in the caller's order
boneByNormalized(bns, normalized) ==
  {k \in 1..Len(bns) : bns[k].normalized = normalized}

\* faulty variant: pass 1 without the usedBones test
Pass1CandidatesIgnoringUsed(bns, pattern, used) ==
  LET k == boneByName(bns, pattern.original)
  IN IF k # 0 THEN {k} ELSE {}

\* faulty variant: pass 1 looks the alias up by its stripped form
Pass1CandidatesByStripped(bns, pattern, used) ==
  LET k == boneByName(bns, pattern.stripped)
  IN IF k # 0 /\ bns[k].original \notin used THEN {k} ELSE {}

\* faulty variant: pass 1 claims nothing
Pass1CandidatesNone(bns, pattern, used) == {}

\* pass 1: the bone of this name, when unused
Pass1Candidates(bns, pattern, used) ==
  LET k == boneByName(bns, pattern.original)
  IN IF k # 0 /\ bns[k].original \notin used THEN {k} ELSE {}

\* faulty variant: pass 2 without the usedBones test
Pass2CandidatesIgnoringUsed(bns, pattern, used) ==
  {k \in 1..Len(bns) :
     /\ bns[k].stripped = pattern.stripped
     /\ bns[k].original # pattern.original}

\* faulty variant: pass 2 compares the normalized forms
Pass2CandidatesByNormalized(bns, pattern, used) ==
  {k \in 1..Len(bns) :
     /\ bns[k].original \notin used
     /\ bns[k].normalized = pattern.normalized
     /\ bns[k].original # pattern.original}

\* pass 2: unused bones of the same stripped name whose raw name differs
Pass2Candidates(bns, pattern, used) ==
  {k \in 1..Len(bns) :
     /\ bns[k].original \notin used
     /\ bns[k].stripped = pattern.stripped
     /\ bns[k].original # pattern.original}

\* faulty variant: pass 3 without the usedBones test
Pass3CandidatesIgnoringUsed(bns, pattern, used) ==
  boneByNormalized(bns, pattern.normalized)

\* faulty variant: pass 3 deletes the separators but keeps the case
Pass3CandidatesCaseSensitive(bns, pattern, used) ==
  {k \in 1..Len(bns) :
     /\ bns[k].original \notin used
     /\ RemoveSeparators(bns[k].stripped) = RemoveSeparators(pattern.stripped)}

\* pass 3: unused bones of the same normalized form
Pass3Candidates(bns, pattern, used) ==
  {k \in boneByNormalized(bns, pattern.normalized) : bns[k].original \notin used}

\* pass 4: unused bones whose tokens hold the pattern's tokens
Pass4Candidates(bns, pattern, used) ==
  IF Len(pattern.tokens) = 0 THEN {}
  ELSE {k \in 1..Len(bns) :
          /\ bns[k].original \notin used
          /\ Len(bns[k].tokens) # 0
          /\ wordBoundaryMatch(pattern.tokens, bns[k].tokens)}

Candidates(pass, bns, pattern, used) ==
  CASE pass = 1 -> Pass1Candidates(bns, pattern, used)
    [] pass = 2 -> Pass2Candidates(bns, pattern, used)
    [] pass = 3 -> Pass3Candidates(bns, pattern, used)
    [] pass = 4 -> Pass4Candidates(bns, pattern, used)

\* faulty variant: of the bones an alias matches, the last one is taken
FirstMatchLastBone(pass, bns, patterns, used) ==
  LET hits == {i \in 1..Len(patterns) : Candidates(pass, bns, patterns[i], used) # {}}
  IN IF hits = {} THEN 0
     ELSE MaxOf(Candidates(pass, bns, patterns[MinOf(hits)], used))

\* the pattern loop of one joint in one pass: the first alias in registry
\* order with a candidate, and its first candidate in the caller's order;
\* 0 when no alias has one
FirstMatch(pass, bns, patterns, used) ==
  LET hits == {i \in 1..Len(patterns) : Candidates(pass, bns, patterns[i], used) # {}}
  IN IF hits = {} THEN 0
     ELSE MinOf(Candidates(pass, bns, patterns[MinOf(hits)], used))

\* faulty variant: the mapping records the bone's prefix-stripped name
NewMappingOfStrippedName(pass, jointKey, boneName) ==
  [ jointKey   |-> jointKey,
    boneName   |-> stripPrefix(boneName),
    confidence |-> Confidence(pass),
    matchPass  |-> PassNames[pass] ]

NewMapping(pass, jointKey, boneName) ==
  [ jointKey   |-> jointKey,
    boneName   |-> boneName,
    confidence |-> Confidence(pass),
    matchPass  |-> PassNames[pass] ]

\* passes 2-4 skip a joint that mappedJoints holds; pass 1 has no such test
SkipsJoint(pass, jointKey, mapped) == pass # 1 /\ jointKey \in mapped

\* one iteration of a pass's loop over jointsToMap, for a registry joint:
\* loc is the call's local state [mappings, usedBones, mappedJoints]
JointStep(pass, bns, jointKey, loc) ==
  IF SkipsJoint(pass, jointKey, loc.mappedJoints) THEN loc
  ELSE LET k == FirstMatch(pass, bns, preprocessedPatterns[jointKey], loc.usedBones)
       IN IF k = 0 THEN loc
          ELSE [ mappings     |-> Append(loc.mappings,
                                         NewMapping(pass, jointKey, bns[k].original)),
                 usedBones    |-> loc.usedBones \cup {bns[k].original},
                 mappedJoints |-> IF pass = 1 THEN loc.mappedJoints
                                  ELSE loc.mappedJoints \cup {jointKey} ]

\* faulty variant: mappedJoints is not filled from the mappings of pass 1
PassEndWithoutPass1Joints(pass, loc) == loc

\* what follows a pass's loop: line 424 builds mappedJoints after pass 1
PassEnd(pass, loc) ==
  IF pass = 1
    THEN [loc EXCEPT !.mappedJoints = {loc.mappings[i].jointKey : i \in 1..Len(loc.mappings)}]
    ELSE loc

\* faulty variant: the word-boundary pass runs before the normalized pass
NextPassWordBoundaryFirst(pass) ==
  CASE pass = 1 -> 2
    [] pass = 2 -> 4
    [] pass = 4 -> 3
    [] pass = 3 -> 5

\* the pass that runs after pass k; 5 is the result assembly
NextPass(pass) == pass + 1

\* faulty variant: the supplied joints are processed in registry declaration order
JointsToMapInRegistryOrder(allowed) ==
  IF allowed.supplied
    THEN SelectSeq(ALL_JOINT_KEYS,
                   LAMBDA j : \E i \in 1..Len(allowed.joints) : allowed.joints[i] = j)
    ELSE ALL_JOINT_KEYS

\* faulty variant: the joints are processed last to first
JointsToMapReversed(allowed) ==
  LET joints == IF allowed.supplied THEN allowed.joints ELSE ALL_JOINT_KEYS
  IN [i \in 1..Len(joints) |-> joints[Len(joints) + 1 - i]]

JointsToMap(allowed) == IF allowed.supplied THEN allowed.joints ELSE ALL_JOINT_KEYS

\* faulty variant: the filter keeps the mapped joints
UnmappedJointsKeepsMapped(joints, mapped) == SelectSeq(joints, LAMBDA j : j \in mapped)

UnmappedJoints(joints, mapped) == SelectSeq(joints, LAMBDA j : j \notin mapped)

UnmappedBones(names, used) == SelectSeq(names, LAMBDA b : b \notin used)

RECURSIVE SumConfidence(_)
SumConfidence(ms) ==
  IF Len(ms) = 0 THEN 0 ELSE ms[1].confidence + SumConfidence(Tail(ms))

\* faulty variant: the sum is divided by the number of mappings
OverallConfidenceOverMapped(ms, joints) ==
  IF Len(ms) > 0
    THEN [num |-> SumConfidence(ms), den |-> 10 * Len(ms)]
    ELSE [num |-> 0, den |-> 1]

\* overallConfidence as the fraction num / den: the confidences are tenths,
\* so the sum over jointsToMap.length is num / (10 * length)
OverallConfidence(ms, joints) ==
  IF Len(ms) > 0
    THEN [num |-> SumConfidence(ms), den |-> 10 * Len(joints)]
    ELSE [num |-> 0, den |-> 1]

toMappingRecord(ms) ==
  [ jointKey \in {ms[i].jointKey : i \in 1..Len(ms)} |->
      ms[MaxOf({i \in 1..Len(ms) : ms[i].jointKey = jointKey})].boneName ]

(* ----------------------------- the inputs --------------------------- *)

\* bone names of the generic inputs: an exact alias of two joints, an exact
\* alias of one joint that normalizes to an alias of another, an exact alias
\* of a third joint, a namespaced bone, and names that match by normalized
\* form only and by tokens only
BonePool ==
  { "LeftHip", "leftHip", "Spine", "mixamorig:Hips", "lefthip", "Left_Hip_Twist" }

\* joints of the generic allowedJoints lists; "tail" is no registry key
JointPool == { "torso", "leftHipPitch", "leftHipYaw", "tail" }

SeqsUpTo(S, n) == UNION { [1..m -> S] : m \in 0..n }

ScenarioA ==
  << "mixamorig:Hips", "mixamorig:Spine", "mixamorig:LeftArm", "mixamorig:RightArm" >>
ScenarioB == << "Hips", "LeftUpLeg", "RightUpLeg" >>
ScenarioBJoints == << "leftHipPitch", "leftHipYaw" >>
ScenarioD == << "UpperArm_L_01" >>
\* a rig whose four bones are claimed by the four passes in turn
FourPassRig == << "LeftHip", "mixamorig:Hips", "left_hip", "Head_End" >>

\* two bones of one normalized form, neither the raw name of an alias
NormalizedTwins == << "LEFT_HIP", "lefthip" >>
NormalizedTwinsReversed == << "lefthip", "LEFT_HIP" >>
TwinJoints == << "leftHipPitch", "leftHipYaw" >>

\* bones with a run of capitals, digits and every separator
TokenRig == << "HTTPServer2", "upperArmL01", "mixamorig_Left.Fore-Arm Roll:x" >>

Absent == [supplied |-> FALSE, joints |-> << >>]
Supplied(joints) == [supplied |-> TRUE, joints |-> joints]

Inputs ==
  ( SeqsUpTo(BonePool, MaxBones)
      \X ({Absent} \cup {Supplied(js) : js \in SeqsUpTo(JointPool, MaxAllowed)}) )
  \cup { << ScenarioA, Absent >>, << ScenarioB, Supplied(ScenarioBJoints) >>,
         << ScenarioD, Absent >>, << FourPassRig, Absent >>,
         << NormalizedTwins, Supplied(TwinJoints) >>,
         << NormalizedTwinsReversed, Supplied(TwinJoints) >>,
         << TokenRig, Absent >> }

(* -------------------------- the state machine ----------------------- *)

VARIABLES
  boneNames,        \* argument: the caller's bone names
  allowedJoints,    \* argument: Absent or Supplied(list)
  pc,               \* "start", "running", "done" (returned), "threw"
  pass,             \* the pass whose loop is running, 1..4
  ji,               \* position of that loop in jointsToMap
  jointsToMap,
  bones,            \* preprocessBones(boneNames)
  usedBones,
  mappings,
  mappedJoints,
  unmappedJoints,   \* the three remaining fields of the returned result
  unmappedBones,
  overallConfidence,
  suspended,        \* the calls that are not running now, one frame each
  confidence,       \* argument of getConfidenceLabel, in hundredths
  label,            \* what getConfidenceLabel returned, NoLabel before
  call,             \* a call of one of the string helpers: [fn, args]
  returned          \* what that call returned, NotReturned before

vars == << boneNames, allowedJoints, pc, pass, ji, jointsToMap, bones, usedBones,
           mappings, mappedJoints, unmappedJoints, unmappedBones, overallConfidence,
           suspended, confidence, label, call, returned >>

inputVars == << boneNames, allowedJoints >>
resultVars == << unmappedJoints, unmappedBones, overallConfidence >>
asideVars == << suspended, confidence, label, call, returned >>

NoLabel == [text |-> "", color |-> ""]
NoCall == [fn |-> "", args |-> << >>]
NotReturned == [done |-> FALSE]

\* a call of autoMapBones(input[1], input[2]) that has not run a statement yet
Entered(input) ==
  /\ boneNames = input[1]
  /\ allowedJoints = input[2]
  /\ pc = "start"
  /\ pass = 1
  /\ ji = 1
  /\ jointsToMap = << >>
  /\ bones = << >>
  /\ usedBones = {}
  /\ mappings = << >>
  /\ mappedJoints = {}
  /\ unmappedJoints = << >>
  /\ unmappedBones = << >>
  /\ overallConfidence = [num |-> 0, den |-> 1]

Init ==
  /\ \E input \in Inputs : Entered(input)
  /\ suspended = << >>
  /\ confidence = 0
  /\ label = NoLabel
  /\ call = NoCall
  /\ returned = NotReturned

\* lines 377-401: jointsToMap, bones and the lookup maps
Start ==
  /\ pc = "start"
  /\ pc' = "running"
  /\ jointsToMap' = JointsToMap(allowedJoints)
  /\ bones' = preprocessBones(boneNames)
  /\ UNCHANGED << inputVars, asideVars, pass, ji, usedBones, mappings, mappedJoints, resultVars >>

Locals == [mappings |-> mappings, usedBones |-> usedBones, mappedJoints |-> mappedJoints]

SetLocals(loc) ==
  /\ mappings' = loc.mappings
  /\ usedBones' = loc.usedBones
  /\ mappedJoints' = loc.mappedJoints

\* one iteration of the running pass's loop over jointsToMap
LoopIteration ==
  /\ pc = "running"
  /\ ji <= Len(jointsToMap)
  /\ jointsToMap[ji] \in DOMAIN preprocessedPatterns
  /\ SetLocals(JointStep(pass, bones, jointsToMap[ji], Locals))
  /\ ji' = ji + 1
  /\ UNCHANGED << inputVars, asideVars, pc, pass, jointsToMap, bones, resultVars >>

\* lines 403-421
Pass1Joint ==
  /\ pass = 1
  /\ LoopIteration

\* lines 423-448
Pass2Joint ==
  /\ pass = 2
  /\ LoopIteration

\* lines 450-475
Pass3Joint ==
  /\ pass = 3
  /\ LoopIteration

\* lines 477-502
Pass4Joint ==
  /\ pass = 4
  /\ LoopIteration

\* lines 405-407: preprocessedPatterns[jointKey] is undefined for a jointKey
\* that is no registry key, and `for (const pattern of undefined)` throws a
\* TypeError; the first pass reaches such an entry first
PatternsUndefined ==
  /\ pc = "running"
  /\ ji <= Len(jointsToMap)
  /\ jointsToMap[ji] \notin DOMAIN preprocessedPatterns
  /\ pc' = "threw"
  /\ UNCHANGED << inputVars, asideVars, pass, ji, jointsToMap, bones, usedBones, mappings,
                  mappedJoints, resultVars >>

\* a pass's loop is over and another pass follows
EndPass ==
  /\ pc = "running"
  /\ ji = Len(jointsToMap) + 1
  /\ NextPass(pass) <= 4
  /\ SetLocals(PassEnd(pass, Locals))
  /\ pass' = NextPass(pass)
  /\ ji' = 1
  /\ UNCHANGED << inputVars, asideVars, pc, jointsToMap, bones, resultVars >>

\* lines 504-510: the last loop is over; the result is assembled and returned
Finish ==
  /\ pc = "running"
  /\ ji = Len(jointsToMap) + 1
  /\ NextPass(pass) > 4
  /\ unmappedJoints' = UnmappedJoints(jointsToMap, mappedJoints)
  /\ unmappedBones' = UnmappedBones(boneNames, usedBones)
  /\ overallConfidence' = OverallConfidence(mappings, jointsToMap)
  /\ pc' = "done"
  /\ UNCHANGED << inputVars, asideVars, pass, ji, jointsToMap, bones, usedBones, mappings,
                  mappedJoints >>

Next ==
  \/ Start
  \/ Pass1Joint
  \/ Pass2Joint
  \/ Pass3Joint
  \/ Pass4Joint
  \/ PatternsUndefined
  \/ EndPass
  \/ Finish

Spec == Init /\ [][Next]_vars

(* ------------- autoMapBones as a function of its arguments ---------- *)

RECURSIVE RunJoints(_, _, _, _, _)
RunJoints(k, bns, joints, i, loc) ==
  IF i > Len(joints) THEN loc
  ELSE RunJoints(k, bns, joints, i + 1, JointStep(k, bns, joints[i], loc))

RECURSIVE RunPasses(_, _, _, _)
RunPasses(k, bns, joints, loc) ==
  LET after == RunJoints(k, bns, joints, 1, loc)
  IN IF NextPass(k) > 4 THEN after
     ELSE RunPasses(NextPass(k), bns, joints, PassEnd(k, after))

\* the mappings autoMapBones returns for registry joints
autoMapBones(names, joints) ==
  RunPasses(1, preprocessBones(names), joints,
            [mappings |-> << >>, usedBones |-> {}, mappedJoints |-> {}]).mappings

(* ------------------------- getConfidenceLabel ------------------------ *)

\* confidences are written in hundredths here: 1.0 is 100, 0.85 is 85
MaxConfidence == 120

LabelExactAt == 100
LabelHighAt == 90
LabelMediumAt == 80

\* faulty variant: the lower bound of each bucket is exclusive
getConfidenceLabelExclusive(c) ==
  IF c > LabelExactAt THEN [text |-> "Exact", color |-> "text-green-400"]
  ELSE IF c > LabelHighAt THEN [text |-> "High", color |-> "text-blue-400"]
  ELSE IF c > LabelMediumAt THEN [text |-> "Medium", color |-> "text-yellow-400"]
  ELSE [text |-> "Low", color |-> "text-orange-400"]

\* lines 528-533
getConfidenceLabel(c) ==
  IF c >= LabelExactAt THEN [text |-> "Exact", color |-> "text-green-400"]
  ELSE IF c >= LabelHighAt THEN [text |-> "High", color |-> "text-blue-400"]
  ELSE IF c >= LabelMediumAt THEN [text |-> "Medium", color |-> "text-yellow-400"]
  ELSE [text |-> "Low", color |-> "text-orange-400"]

engineVars == << inputVars, pc, pass, ji, jointsToMap, bones, usedBones, mappings,
                 mappedJoints, resultVars >>

InitLabel ==
  /\ Entered(<< << >>, Absent >>)
  /\ suspended = << >>
  /\ confidence \in 0..MaxConfidence
  /\ label = NoLabel
  /\ call = NoCall
  /\ returned = NotReturned

GetConfidenceLabel ==
  /\ label = NoLabel
  /\ label' = getConfidenceLabel(confidence)
  /\ UNCHANGED << engineVars, suspended, confidence, call, returned >>

NextLabel == GetConfidenceLabel

SpecLabel == InitLabel /\ [][NextLabel]_vars

(* ----------------------- several calls at once ----------------------- *)

MaxCalls == 2

\* the arguments, locals and result of the call that is running
Frame ==
  [boneNames |-> boneNames, allowedJoints |-> allowedJoints, pc |-> pc,
   pass |-> pass, ji |-> ji, jointsToMap |-> jointsToMap, bones |-> bones,
   usedBones |-> usedBones, mappings |-> mappings, mappedJoints |-> mappedJoints,
   unmappedJoints |-> unmappedJoints, unmappedBones |-> unmappedBones,
   overallConfidence |-> overallConfidence]

\* the frame of a call for which Entered(input) holds
EnteredFrame(input) ==
  [boneNames |-> input[1], allowedJoints |-> input[2], pc |-> "start",
   pass |-> 1, ji |-> 1, jointsToMap |-> << >>, bones |-> << >>,
   usedBones |-> {}, mappings |-> << >>, mappedJoints |-> {},
   unmappedJoints |-> << >>, unmappedBones |-> << >>,
   overallConfidence |-> [num |-> 0, den |-> 1]]

\* faulty variant: usedBones is one set that all calls write
ResumedSharingUsedBones(frame) == [frame EXCEPT !.usedBones = usedBones]

\* lines 377-380: jointsToMap, bones, usedBones and mappings are consts of
\* the function body, so a call that goes on finds its own values
Resumed(frame) == frame

ConcurrentInputs ==
  { << << "LeftHip" >>, Supplied(<< "leftHipPitch", "leftHipYaw" >>) >>,
    << << "LeftHip", "lefthip" >>, Supplied(<< "leftHipYaw" >>) >>,
    << << "Spine" >>, Supplied(<< "torso", "tail" >>) >> }

InitConcurrent ==
  /\ \E input \in ConcurrentInputs : Entered(input)
  /\ suspended \in SeqsUpTo({ EnteredFrame(input) : input \in ConcurrentInputs },
                            MaxCalls - 1)
  /\ confidence = 0
  /\ label = NoLabel
  /\ call = NoCall
  /\ returned = NotReturned

\* the running call stops between two statements and another call goes on
Switch ==
  \E i \in DOMAIN suspended :
    LET frame == Resumed(suspended[i])
    IN /\ boneNames' = frame.boneNames
       /\ allowedJoints' = frame.allowedJoints
       /\ pc' = frame.pc
       /\ pass' = frame.pass
       /\ ji' = frame.ji
       /\ jointsToMap' = frame.jointsToMap
       /\ bones' = frame.bones
       /\ usedBones' = frame.usedBones
       /\ mappings' = frame.mappings
       /\ mappedJoints' = frame.mappedJoints
       /\ unmappedJoints' = frame.unmappedJoints
       /\ unmappedBones' = frame.unmappedBones
       /\ overallConfidence' = frame.overallConfidence
       /\ suspended' = [suspended EXCEPT ![i] = Frame]
       /\ UNCHANGED << confidence, label, call, returned >>

NextConcurrent ==
  \/ Next
  \/ Switch

SpecConcurrent == InitConcurrent /\ [][NextConcurrent]_vars

\* the whole result of a call that runs alone and returns
autoMapResult(names, allowed) ==
  LET joints == JointsToMap(allowed)
      loc == RunPasses(1, preprocessBones(names), joints,
                       [mappings |-> << >>, usedBones |-> {}, mappedJoints |-> {}])
  IN [mappings |-> loc.mappings,
      unmappedJoints |-> UnmappedJoints(joints, loc.mappedJoints),
      unmappedBones |-> UnmappedBones(names, loc.usedBones),
      overallConfidence |-> OverallConfidence(loc.mappings, joints)]

(* ------------------------ the string helpers ------------------------- *)

MaxTokens == 3

\* names the helpers are called with: every alias of the registry, and names
\* with each rig prefix, a repeated, bare, lowercase or inner prefix, mixed
\* case, every separator, digits and runs of capitals
NameSamples ==
  UNION { { BONE_PATTERNS[j][i] : i \in 1..Len(BONE_PATTERNS[j]) }
            : j \in DOMAIN BONE_PATTERNS }
  \cup { "", "_", "Arm", "arm", "A.r-m", "ARM", "Hips",
         "mixamorig:Hips", "mixamorig_Hips", "mixamorigHips", "mixamorig",
         "Mixamorig:Hips", "mixamorig:mixamorig:Hips", "mixamorig:DEF-Arm",
         "DEF-Arm", "DEF-DEF-Arm", "DEFArm", "def-arm", "DEF_Arm", "DEF-",
         "ORG-Arm", "ORG-arm", "MCH-Arm", "MCH-arm", "xDEF-Arm",
         "Left_Hip", "left hip", "LEFTHIP", "Left:Hip", "left__hip",
         "HTTPServer2", "UpperArm_L_01", "upperArmL01" }

TokenSamples == { "arm", "forearm", "upper" }

TokenLists == UNION { [1..m -> TokenSamples] : m \in 0..MaxTokens }

HelperCalls ==
  { [fn |-> f, args |-> << name >>] :
      f \in { "stripPrefix", "normalizeBoneName", "tokenize" }, name \in NameSamples }
  \cup { [fn |-> "wordBoundaryMatch", args |-> << p, b >>] :
           p \in TokenLists, b \in TokenLists }

InitHelpers ==
  /\ Entered(<< << >>, Absent >>)
  /\ suspended = << >>
  /\ confidence = 0
  /\ label = NoLabel
  /\ call \in HelperCalls
  /\ returned = NotReturned

Returns(value) ==
  /\ returned = NotReturned
  /\ returned' = [done |-> TRUE, value |-> value]
  /\ UNCHANGED << engineVars, suspended, confidence, label, call >>

StripPrefix ==
  /\ call.fn = "stripPrefix"
  /\ Returns(stripPrefix(call.args[1]))

NormalizeBoneName ==
  /\ call.fn = "normalizeBoneName"
  /\ Returns(normalizeBoneName(call.args[1]))

Tokenize ==
  /\ call.fn = "tokenize"
  /\ Returns(tokenize(call.args[1]))

WordBoundaryMatch ==
  /\ call.fn = "wordBoundaryMatch"
  /\ Returns(wordBoundaryMatch(call.args[1], call.args[2]))

NextHelpers ==
  \/ StripPrefix
  \/ NormalizeBoneName
  \/ Tokenize
  \/ WordBoundaryMatch

SpecHelpers == InitHelpers /\ [][NextHelpers]_vars

(* ------------------- vocabulary of the properties ------------------- *)

\* the attempted joint list, as the caller gave it
Attempted == IF allowedJoints.supplied THEN allowedJoints.joints ELSE ALL_JOINT_KEYS

IndexIn(seq, x) == MinOf({i \in 1..Len(seq) : seq[i] = x})
Elems(seq) == {seq[i] : i \in 1..Len(seq)}

RegistryJoints == DOMAIN BONE_PATTERNS
MappedJointKeys == {mappings[i].jointKey : i \in 1..Len(mappings)}
MappedBoneNames == {mappings[i].boneName : i \in 1..Len(mappings)}
Assignments(ms) == {<< ms[i].jointKey, ms[i].boneName >> : i \in 1..Len(ms)}
PassNo(matchPass) == IndexIn(PassNames, matchPass)

\* the matching rule of pass k between one alias and one raw bone name
RuleHolds(k, alias, boneName) ==
  CASE k = 1 -> boneName = alias
    [] k = 2 -> stripPrefix(boneName) = stripPrefix(alias) /\ boneName # alias
    [] k = 3 -> normalizeBoneName(boneName) = normalizeBoneName(alias)
    [] k = 4 -> wordBoundaryMatch(tokenize(alias), tokenize(boneName))

\* boneName satisfies the rule of pass k for some alias of jointKey
Matches(k, jointKey, boneName) ==
  \E alias \in Elems(BONE_PATTERNS[jointKey]) : RuleHolds(k, alias, boneName)

MatchesSomePass(jointKey, boneName) ==
  \E k \in 1..4 : Matches(k, jointKey, boneName)

NoRepeats(seq) == \A i, j \in 1..Len(seq) : i # j => seq[i] # seq[j]

IsPrefixOf(s, t) == Len(s) <= Len(t) /\ SubSeq(t, 1, Len(s)) = s

(* ------------------------------- C1 --------------------------------- *)

\* C1: at every step of a run, and so in the returned result, no two
\* mappings have the same boneName, whatever boneNames (repeated names,
\* names matching aliases of several joints) and allowedJoints are.
C1_NoBoneMappedTwice ==
  \A i, j \in 1..Len(mappings) :
     i # j => mappings[i].boneName # mappings[j].boneName

\* a returned result for a boneNames list that repeats a name which was
\* claimed, while an attempted joint with that very name as an alias is
\* left unmapped
C1_Witness ==
  /\ pc = "done"
  /\ \E i, j \in 1..Len(boneNames) :
       /\ i # j
       /\ boneNames[i] = boneNames[j]
       /\ boneNames[i] \in MappedBoneNames
       /\ \E u \in Elems(unmappedJoints) : Matches(1, u, boneNames[i])

(* ------------------------------- C2 --------------------------------- *)

\* C2: no two mappings have the same jointKey, whatever the order or
\* content of allowedJoints: each attempted joint is mapped at most once
\* across the four passes.
C2_NoJointMappedTwice ==
  \A i, j \in 1..Len(mappings) :
     i # j => mappings[i].jointKey # mappings[j].jointKey

(* ------------------------------- C3 --------------------------------- *)

\* C3 as stated: in every returned result, mappings.length +
\* unmappedJoints.length is allowedJoints.length when allowedJoints is
\* supplied and the number of registry joints when it is not.
C3_CoverageAsStated ==
  pc = "done" =>
    Len(mappings) + Len(unmappedJoints) =
      (IF allowedJoints.supplied THEN Len(allowedJoints.joints)
                                 ELSE Cardinality(RegistryJoints))

\* C3 amended: in every returned result the sum never exceeds that number,
\* and equals it when allowedJoints is absent or lists no joint twice.
C3_Coverage ==
  pc = "done" =>
    LET total == IF allowedJoints.supplied THEN Len(allowedJoints.joints)
                                           ELSE Cardinality(RegistryJoints)
    IN /\ Len(mappings) + Len(unmappedJoints) <= total
       /\ NoRepeats(Attempted) => Len(mappings) + Len(unmappedJoints) = total

\* a returned result for a supplied allowedJoints without repeats, with a
\* mapped and an unmapped joint
C3_Witness ==
  /\ pc = "done"
  /\ allowedJoints.supplied
  /\ NoRepeats(allowedJoints.joints)
  /\ Len(mappings) >= 1
  /\ Len(unmappedJoints) >= 1

(* ------------------------------- C4 --------------------------------- *)

\* C4: when allowedJoints holds an entry that is no registry key, the call
\* does not fail; the entry ends in unmappedJoints and in no mapping.
C4_UnknownJointTolerated ==
  \A u \in Elems(Attempted) \ RegistryJoints :
     /\ pc # "threw"
     /\ pc = "done" => u \in Elems(unmappedJoints) /\ u \notin MappedJointKeys

(* ------------------------------- C5 --------------------------------- *)

ReorderedBy(seq, p) == [i \in 1..Len(seq) |-> seq[p[i]]]

\* C5 as stated: every reordering of allowedJoints assigns the same bone
\* to each joint.
C5_OrderOfAllowedJointsIrrelevant ==
  (pc = "done" /\ allowedJoints.supplied) =>
    \A p \in Permutations(1..Len(allowedJoints.joints)) :
       Assignments(autoMapBones(boneNames, ReorderedBy(allowedJoints.joints, p)))
         = Assignments(mappings)

\* C5 amended: joints are processed in the order of the attempted list,
\* which is allowedJoints as the caller lists it (the registry's declaration
\* order only when allowedJoints is absent): the mappings of one pass appear
\* in the order in which their joints are listed.
C5_CallerOrderWithinPass ==
  \A i, j \in 1..Len(mappings) :
     (i < j /\ mappings[i].matchPass = mappings[j].matchPass) =>
        \E p, q \in 1..Len(Attempted) :
           /\ p < q
           /\ Attempted[p] = mappings[i].jointKey
           /\ Attempted[q] = mappings[j].jointKey

\* a returned result whose mappings list, within one pass, a joint declared
\* later in the registry before one declared earlier
C5_Witness ==
  /\ pc = "done"
  /\ \E i, j \in 1..Len(mappings) :
       /\ i < j
       /\ mappings[i].matchPass = mappings[j].matchPass
       /\ IndexIn(ALL_JOINT_KEYS, mappings[i].jointKey)
            > IndexIn(ALL_JOINT_KEYS, mappings[j].jointKey)

(* ------------------------------- C6 --------------------------------- *)

\* C6 as stated: for attempted joints J1 declared before J2 in the registry
\* and a bone B that satisfies some pass's rule for an alias of each, the
\* run never ends with B mapped to J2 while J1 is unmapped.
C6_EarlierDeclaredJointWins ==
  pc = "done" =>
    \A i \in 1..Len(mappings) :
       \A J1 \in Elems(Attempted) \cap RegistryJoints :
          ( /\ IndexIn(ALL_JOINT_KEYS, J1) < IndexIn(ALL_JOINT_KEYS, mappings[i].jointKey)
            /\ MatchesSomePass(J1, mappings[i].boneName)
            /\ MatchesSomePass(mappings[i].jointKey, mappings[i].boneName) )
          => J1 \in MappedJointKeys

\* C6 amended: the joint listed earlier in the attempted list wins a bone
\* contested within one pass: the run never ends with B mapped to J2 at pass
\* k while a joint J1 that is first listed before J2, and for which B
\* satisfies the rule of the same pass k, is unmapped.
C6_EarlierListedJointWinsWithinPass ==
  pc = "done" =>
    \A i \in 1..Len(mappings) :
       \A J1 \in Elems(Attempted) \cap RegistryJoints :
          ( /\ IndexIn(Attempted, J1) < IndexIn(Attempted, mappings[i].jointKey)
            /\ Matches(PassNo(mappings[i].matchPass), J1, mappings[i].boneName) )
          => J1 \in MappedJointKeys

\* a returned result where a bone that satisfies one pass's rule for two
\* attempted joints went to the one listed first and the other is unmapped
C6_Witness ==
  /\ pc = "done"
  /\ \E i \in 1..Len(mappings) :
       \E J2 \in Elems(unmappedJoints) :
          /\ IndexIn(Attempted, mappings[i].jointKey) < IndexIn(Attempted, J2)
          /\ Matches(PassNo(mappings[i].matchPass), J2, mappings[i].boneName)

(* ------------------------------- C7 --------------------------------- *)

\* C7: the claimed names are always exactly the boneNames of the mappings
\* recorded so far; a step either leaves the mappings alone or appends one
\* mapping, whose bone was unclaimed and becomes claimed; so claimed names
\* only grow, and no recorded mapping is removed or changed.
C7_ClaimedBonesOnlyGrow ==
  /\ [](usedBones = MappedBoneNames)
  /\ [][ /\ usedBones \subseteq usedBones'
         /\ IsPrefixOf(mappings, mappings')
         /\ Len(mappings') <= Len(mappings) + 1
         /\ Len(mappings') = Len(mappings) + 1 =>
              /\ mappings'[Len(mappings')].boneName \notin usedBones
              /\ usedBones' = usedBones \cup {mappings'[Len(mappings')].boneName}
         /\ Len(mappings') = Len(mappings) => usedBones' = usedBones ]_vars

\* a later pass is at a joint that is still unmapped although a claimed
\* bone satisfies that pass's rule for it
C7_Witness ==
  /\ pc = "running"
  /\ pass >= 2
  /\ ji <= Len(jointsToMap)
  /\ jointsToMap[ji] \in RegistryJoints \ MappedJointKeys
  /\ \E b \in usedBones : Matches(pass, jointsToMap[ji], b)

(* ------------------------------- C8 --------------------------------- *)

\* C8: the passes run one after another: while pass k runs no mapping of a
\* later pass exists, and the mappings list holds all 'exact' entries before
\* all 'prefix-stripped', before all 'normalized', before all
\* 'word-boundary' entries.
C8_PassesInSequence ==
  /\ \A i, j \in 1..Len(mappings) :
        i < j => PassNo(mappings[i].matchPass) <= PassNo(mappings[j].matchPass)
  /\ pc = "running" =>
        \A i \in 1..Len(mappings) : PassNo(mappings[i].matchPass) <= pass

\* a returned result in which a joint listed later, mapped by an earlier
\* pass, precedes a joint listed earlier that a later pass mapped
C8_Witness ==
  /\ pc = "done"
  /\ \E i, j \in 1..Len(mappings) :
       /\ i < j
       /\ PassNo(mappings[i].matchPass) < PassNo(mappings[j].matchPass)
       /\ IndexIn(Attempted, mappings[i].jointKey)
            > IndexIn(Attempted, mappings[j].jointKey)

(* ------------------------------- C9 --------------------------------- *)

\* C9: every mapping pairs its matchPass with that pass's confidence:
\* 'exact' 1.0, 'prefix-stripped' 0.9, 'normalized' 0.8, 'word-boundary'
\* 0.6 (in tenths), and no other pairing occurs.
C9_ConfidenceOfPass ==
  \A i \in 1..Len(mappings) :
     << mappings[i].matchPass, mappings[i].confidence >> \in
        { << "exact", 10 >>, << "prefix-stripped", 9 >>,
          << "normalized", 8 >>, << "word-boundary", 6 >> }

\* a returned result with a mapping of each of the four passes
C9_Witness ==
  /\ pc = "done"
  /\ \A k \in 1..4 : \E i \in 1..Len(mappings) : mappings[i].matchPass = PassNames[k]

(* ------------------------------- C10 -------------------------------- *)

IsScenarioA == boneNames = ScenarioA /\ ~allowedJoints.supplied

\* C10 as stated: in scenario A both shoulder-pitch joints are mapped to
\* their "mixamorig:*Arm" bone by pass 2, confidence 0.9.
C10_ShouldersByPrefixStripped ==
  (IsScenarioA /\ pc = "done") =>
    /\ [jointKey |-> "leftShoulderPitch", boneName |-> "mixamorig:LeftArm",
        confidence |-> 9, matchPass |-> "prefix-stripped"] \in Elems(mappings)
    /\ [jointKey |-> "rightShoulderPitch", boneName |-> "mixamorig:RightArm",
        confidence |-> 9, matchPass |-> "prefix-stripped"] \in Elems(mappings)

\* C10 amended: in scenario A both shoulder-pitch joints are mapped to their
\* "mixamorig:*Arm" bone by pass 1 ('exact', confidence 1.0), the registry
\* listing "mixamorig:LeftArm" and "mixamorig:RightArm" as aliases.
C10_ShouldersByExact ==
  (IsScenarioA /\ pc = "done") =>
    /\ [jointKey |-> "leftShoulderPitch", boneName |-> "mixamorig:LeftArm",
        confidence |-> 10, matchPass |-> "exact"] \in Elems(mappings)
    /\ [jointKey |-> "rightShoulderPitch", boneName |-> "mixamorig:RightArm",
        confidence |-> 10, matchPass |-> "exact"] \in Elems(mappings)

\* scenario A has returned with both shoulder-pitch joints mapped
C10_Witness ==
  /\ IsScenarioA
  /\ pc = "done"
  /\ {"leftShoulderPitch", "rightShoulderPitch"} \subseteq MappedJointKeys

(* ------------------------------- C11 -------------------------------- *)

\* C11: in scenario A torso is mapped by pass 1 or pass 2 to
\* "mixamorig:Hips" or "mixamorig:Spine", and every joint other than torso,
\* leftShoulderPitch and rightShoulderPitch ends in unmappedJoints.
C11_ScenarioARest ==
  (IsScenarioA /\ pc = "done") =>
    /\ \E i \in 1..Len(mappings) : mappings[i].jointKey = "torso"
    /\ \A i \in 1..Len(mappings) :
          mappings[i].jointKey = "torso" =>
             /\ mappings[i].matchPass \in {"exact", "prefix-stripped"}
             /\ mappings[i].boneName \in {"mixamorig:Hips", "mixamorig:Spine"}
    /\ Elems(unmappedJoints) =
         RegistryJoints \ {"torso", "leftShoulderPitch", "rightShoulderPitch"}
    /\ Len(unmappedJoints) = Cardinality(RegistryJoints) - 3

\* scenario A has returned, torso took one of the two spine bones and the
\* other is left over
C11_Witness ==
  /\ IsScenarioA
  /\ pc = "done"
  /\ "torso" \in MappedJointKeys
  /\ Elems(unmappedBones) \cap {"mixamorig:Hips", "mixamorig:Spine"} # {}

(* ------------------------------- C12 -------------------------------- *)

IsScenarioB == boneNames = ScenarioB /\ allowedJoints = Supplied(ScenarioBJoints)

\* C12: in scenario B leftHipPitch is mapped to "LeftUpLeg" by pass 1 with
\* confidence 1.0, and leftHipYaw ends in unmappedJoints, no unused bone
\* satisfying any pass's rule for any of its aliases.
C12_ScenarioB ==
  (IsScenarioB /\ pc = "done") =>
    /\ mappings = << [jointKey |-> "leftHipPitch", boneName |-> "LeftUpLeg",
                      confidence |-> 10, matchPass |-> "exact"] >>
    /\ unmappedJoints = << "leftHipYaw" >>
    /\ \A b \in Elems(boneNames) \ usedBones : ~MatchesSomePass("leftHipYaw", b)

\* scenario B has returned with leftHipYaw unmapped although the claimed
\* bone satisfies a rule for one of its aliases
C12_Witness ==
  /\ IsScenarioB
  /\ pc = "done"
  /\ "leftHipYaw" \in Elems(unmappedJoints)
  /\ "LeftUpLeg" \in usedBones
  /\ MatchesSomePass("leftHipYaw", "LeftUpLeg")

(* ------------------------------- C13 -------------------------------- *)

\* C13: for boneNames = [] and any allowedJoints, or none, the call returns
\* zero mappings, unmappedJoints equal to the requested joint sequence,
\* empty unmappedBones and overallConfidence 0.
C13_EmptyBoneNames ==
  boneNames = << >> =>
    /\ pc # "threw"
    /\ pc = "done" =>
         /\ mappings = << >>
         /\ unmappedJoints = Attempted
         /\ unmappedBones = << >>
         /\ overallConfidence.num = 0

(* ------------------------------- C14 -------------------------------- *)

IsScenarioD == boneNames = ScenarioD /\ ~allowedJoints.supplied

\* C14: "UpperArm_L_01" has the tokens upper, arm, l, 01; alone with the
\* default joints it satisfies no rule of passes 1-3 for any joint and is
\* mapped by pass 4 ('word-boundary', 0.6) to a joint one of whose aliases
\* has a token list that is a run of the bone's tokens starting at the first.
C14_ScenarioD ==
  (IsScenarioD /\ pc = "done") =>
    /\ tokenize("UpperArm_L_01") = << "upper", "arm", "l", "01" >>
    /\ \A J \in RegistryJoints : \A k \in 1..3 : ~Matches(k, J, "UpperArm_L_01")
    /\ Len(mappings) = 1
    /\ mappings[1].boneName = "UpperArm_L_01"
    /\ mappings[1].matchPass = "word-boundary"
    /\ mappings[1].confidence = 6
    /\ \E alias \in Elems(BONE_PATTERNS[mappings[1].jointKey]) :
          /\ tokenize(alias) # << >>
          /\ IsPrefixOf(tokenize(alias), tokenize("UpperArm_L_01"))

\* scenario D has returned with the bone claimed by leftShoulderPitch
C14_Witness ==
  /\ IsScenarioD
  /\ pc = "done"
  /\ << "leftShoulderPitch", "UpperArm_L_01" >> \in Assignments(mappings)

(* ------------------------------- C15 -------------------------------- *)

\* C15: overallConfidence is the sum of the mappings' confidences over the
\* number of attempted joints, is 0 when there is no mapping (also for an
\* empty attempted list: the denominator is never 0), and lies in [0, 1].
\* Confidences are tenths, so the quotient is num / den with
\* num * 10 * #attempted = sum * den.
C15_OverallConfidence ==
  pc = "done" =>
    /\ overallConfidence.den > 0
    /\ IF Len(mappings) = 0
         THEN overallConfidence.num = 0
         ELSE overallConfidence.num * 10 * Len(Attempted)
                = SumConfidence(mappings) * overallConfidence.den
    /\ 0 <= overallConfidence.num
    /\ overallConfidence.num <= overallConfidence.den

\* a returned result with mappings of two different confidences and an
\* unmapped joint, so that the quotient is a proper fraction
C15_Witness ==
  /\ pc = "done"
  /\ \E i, j \in 1..Len(mappings) : mappings[i].confidence # mappings[j].confidence
  /\ Len(unmappedJoints) >= 1
  /\ 0 < overallConfidence.num
  /\ overallConfidence.num < overallConfidence.den

(* ------------------------------- C16 -------------------------------- *)

\* C16: every entry of boneNames is either the bone of exactly one mapping
\* or listed in unmappedBones, so mappings.length + unmappedBones.length
\* is boneNames.length, also when boneNames repeats a name.
C16_EveryBoneAccounted ==
  pc = "done" => Len(mappings) + Len(unmappedBones) = Len(boneNames)

(* ------------------------------- C20 -------------------------------- *)

\* C20: toMappingRecord of a returned result has one key per entry of
\* mappings, holds m.boneName under m.jointKey for every mapping m, and has
\* no key for a joint of unmappedJoints.
C20_RecordOfMappings ==
  pc = "done" =>
    LET record == toMappingRecord(mappings)
    IN /\ Cardinality(DOMAIN record) = Len(mappings)
       /\ \A i \in 1..Len(mappings) :
             /\ mappings[i].jointKey \in DOMAIN record
             /\ record[mappings[i].jointKey] = mappings[i].boneName
       /\ DOMAIN record \cap Elems(unmappedJoints) = {}

(* ----------------------------- C18 ---------------------------------- *)

AllFrames == { Frame } \cup { suspended[i] : i \in DOMAIN suspended }

Returned(frame) ==
  [mappings |-> frame.mappings, unmappedJoints |-> frame.unmappedJoints,
   unmappedBones |-> frame.unmappedBones,
   overallConfidence |-> frame.overallConfidence]

\* a call with these joints alone ends in the TypeError of line 406
ThrowsAlone(allowed) ==
  \E i \in 1..Len(JointsToMap(allowed)) : JointsToMap(allowed)[i] \notin RegistryJoints

CallInputs == { << frame.boneNames, frame.allowedJoints >> : frame \in AllFrames }

C18_EachCallAsAlone ==
  \A frame \in AllFrames :
    /\ frame.pc = "done" =>
         /\ ~ ThrowsAlone(frame.allowedJoints)
         /\ Returned(frame) = autoMapResult(frame.boneNames, frame.allowedJoints)
    /\ frame.pc = "threw" => ThrowsAlone(frame.allowedJoints)

\* C18: however the steps of several autoMapBones calls are interleaved,
\* every call that has ended ended as it does when it runs alone (the same
\* mappings, unmappedJoints, unmappedBones and overallConfidence, or the same
\* exception), and no step changes the boneNames or allowedJoints of any call.
C18_InterleavedCalls ==
  /\ [] C18_EachCallAsAlone
  /\ [][CallInputs' = CallInputs]_vars

\* a call has returned mappings while another call, which claimed a bone
\* before, is still inside a later pass
C18_Witness ==
  /\ pc = "done"
  /\ mappings # << >>
  /\ \E i \in DOMAIN suspended :
       /\ suspended[i].pc = "running"
       /\ suspended[i].pass >= 2
       /\ suspended[i].usedBones # {}

(* ----------------------------- C19 ---------------------------------- *)

Labelled == label # NoLabel

\* C19: getConfidenceLabel returns 'Exact' for confidence >= 1.0, 'High' for
\* 0.9 <= confidence < 1.0, 'Medium' for 0.8 <= confidence < 0.9 and 'Low'
\* below 0.8, so the engine's four confidences 1.0, 0.9, 0.8 and 0.6 get the
\* four distinct labels Exact, High, Medium, Low.
C19_ConfidenceLabel ==
  /\ Labelled =>
       /\ confidence >= 100 => label.text = "Exact"
       /\ (90 <= confidence /\ confidence < 100) => label.text = "High"
       /\ (80 <= confidence /\ confidence < 90) => label.text = "Medium"
       /\ confidence < 80 => label.text = "Low"
  /\ [k \in 1..4 |-> getConfidenceLabel(10 * Confidence(k)).text]
       = << "Exact", "High", "Medium", "Low" >>

\* the label of a confidence that sits exactly on a lower bound
C19_Witness ==
  /\ Labelled
  /\ confidence \in { 80, 90, 100 }

(* ------------------------------- C21 -------------------------------- *)

\* the call has returned or thrown: mappings holds all it has recorded
Ended == pc \in { "done", "threw" }

\* C21: every mapping a call has recorded satisfies the matching rule of its
\* recorded pass for some alias A of its joint and its bone B: 'exact' B = A,
\* 'prefix-stripped' stripPrefix(B) = stripPrefix(A) and B # A, 'normalized'
\* normalize(B) = normalize(A), 'word-boundary' the tokens of A are a
\* contiguous run of the tokens of B.
C21_MappingFitsItsPass ==
  Ended =>
    \A i \in 1..Len(mappings) :
      /\ mappings[i].jointKey \in RegistryJoints
      /\ mappings[i].matchPass \in Elems(PassNames)
      /\ Matches(PassNo(mappings[i].matchPass), mappings[i].jointKey,
                 mappings[i].boneName)

\* a returned result that holds a prefix-stripped and a word-boundary mapping
C21_Witness ==
  /\ pc = "done"
  /\ \E i, j \in 1..Len(mappings) :
       /\ mappings[i].matchPass = "prefix-stripped"
       /\ mappings[j].matchPass = "word-boundary"

(* ------------------------------- C22 -------------------------------- *)

\* pass 2 of an engine without the condition bone.original !== pattern.original
Pass2CandidatesWithoutExclusion(bns, pattern, used) ==
  {k \in 1..Len(bns) :
     /\ bns[k].original \notin used
     /\ bns[k].stripped = pattern.stripped}

\* pass 2 is about to examine the bones for a joint that is not mapped yet
InPass2Examination ==
  /\ pc = "running"
  /\ pass = 2
  /\ ji <= Len(jointsToMap)
  /\ jointsToMap[ji] \in RegistryJoints
  /\ jointsToMap[ji] \notin mappedJoints

\* C22: pass 2's exclusion is dead code: whenever pass 2 examines an unused
\* bone against an alias of a still-unmapped joint, the raw bone name differs
\* from the raw alias, so the candidates of every alias, and with them every
\* step and the result, are those of an engine without the condition.
C22_Pass2ExclusionIsDead ==
  InPass2Examination =>
    \A i \in 1..Len(preprocessedPatterns[jointsToMap[ji]]) :
      LET pattern == preprocessedPatterns[jointsToMap[ji]][i]
      IN /\ \A k \in 1..Len(bones) :
              bones[k].original \notin usedBones
                => bones[k].original # pattern.original
         /\ Pass2Candidates(bones, pattern, usedBones)
              = Pass2CandidatesWithoutExclusion(bones, pattern, usedBones)

\* pass 2 examines a joint one of whose aliases is the raw name of a bone of
\* the call, a bone that another joint claimed in pass 1
C22_Witness ==
  /\ InPass2Examination
  /\ \E k \in 1..Len(bones) :
       /\ Matches(1, jointsToMap[ji], bones[k].original)
       /\ bones[k].original \in usedBones

(* ------------------------------- C23 -------------------------------- *)

\* the positions in boneNames of the bones of the pattern's normalized form
\* whose name is not claimed
UnclaimedOfNormalizedForm(pattern) ==
  {k \in 1..Len(bones) :
     /\ bones[k].normalized = pattern.normalized
     /\ boneNames[k] \notin usedBones}

C23_Pass3Step ==
  (pass = 3 /\ Len(mappings') = Len(mappings) + 1) =>
    LET new == mappings'[Len(mappings')]
        patterns == preprocessedPatterns[new.jointKey]
        tried == {a \in 1..Len(patterns) : UnclaimedOfNormalizedForm(patterns[a]) # {}}
    IN /\ tried # {}
       /\ new.boneName
            = boneNames[MinOf(UnclaimedOfNormalizedForm(patterns[MinOf(tried)]))]
       /\ usedBones' = usedBones \cup {new.boneName}

\* C23: in pass 3, when several bones have the normalized form of the alias
\* being tried, the joint is mapped to the one that comes first in boneNames
\* among those whose name is not yet claimed, and only that bone is claimed:
\* the later ones are left for other joints.
C23_Pass3TakesFirstUnclaimed == [][C23_Pass3Step]_vars

\* two bones with different names and one normalized form went to two joints
\* in pass 3, the earlier bone to the joint that was tried first
C23_Witness ==
  /\ pc = "done"
  /\ \E i, j \in 1..Len(mappings) :
       /\ i < j
       /\ mappings[i].matchPass = "normalized"
       /\ mappings[j].matchPass = "normalized"
       /\ mappings[i].boneName # mappings[j].boneName
       /\ normalizeBoneName(mappings[i].boneName)
            = normalizeBoneName(mappings[j].boneName)
       /\ IndexIn(boneNames, mappings[i].boneName)
            < IndexIn(boneNames, mappings[j].boneName)

(* ------------------------------- C24 -------------------------------- *)

Returned24 == call.fn = "wordBoundaryMatch" /\ returned.done

\* patternTokens is a contiguous run of boneTokens
IsRunOf(patternTokens, boneTokens) ==
  \E s \in 0..Len(boneTokens) :
    /\ s + Len(patternTokens) <= Len(boneTokens)
    /\ SubSeq(boneTokens, s + 1, s + Len(patternTokens)) = patternTokens

\* C24: wordBoundaryMatch(patternTokens, boneTokens) is true exactly when
\* both lists are non-empty and the pattern tokens are, whole token by whole
\* token, a contiguous run of the bone tokens: 'arm' does not match 'forearm',
\* and tokens in another order or with a gap do not match.
C24_WordBoundaryMatch ==
  Returned24 =>
    LET patternTokens == call.args[1]
        boneTokens == call.args[2]
    IN /\ returned.value
            = ( /\ patternTokens # << >>
                /\ boneTokens # << >>
                /\ IsRunOf(patternTokens, boneTokens) )
       /\ (patternTokens = << "arm" >> /\ boneTokens = << "forearm" >>)
            => ~ returned.value
       /\ (patternTokens = << "upper", "arm" >> /\ boneTokens = << "arm", "upper" >>)
            => ~ returned.value
       /\ ( /\ patternTokens = << "upper", "arm" >>
            /\ boneTokens = << "upper", "forearm", "arm" >> )
            => ~ returned.value

\* a match that starts after the first bone token
C24_Witness ==
  /\ Returned24
  /\ returned.value
  /\ call.args[1] = << "upper", "arm" >>
  /\ call.args[2] = << "forearm", "upper", "arm" >>

(* ------------------------------- C25 -------------------------------- *)

\* the positions in boneNames of the unclaimed bones that satisfy the rule
\* of pass k for this alias
UnclaimedMatching(k, alias) ==
  {i \in 1..Len(boneNames) :
     /\ boneNames[i] \notin usedBones
     /\ RuleHolds(k, alias, boneNames[i])}

\* the mapping a step records goes through the first alias, in registry
\* order, that has an unclaimed matching bone, to the first such bone
C25_FirstAliasThenFirstBone ==
  Len(mappings') = Len(mappings) + 1 =>
    LET new == mappings'[Len(mappings')]
        aliases == BONE_PATTERNS[new.jointKey]
        tried == {a \in 1..Len(aliases) : UnclaimedMatching(pass, aliases[a]) # {}}
    IN /\ new.matchPass = PassNames[pass]
       /\ tried # {}
       /\ new.boneName = boneNames[MinOf(UnclaimedMatching(pass, aliases[MinOf(tried)]))]

\* a joint that has its mapping of this pass is not tried again in the pass
C25_OneSuccessPerJointAndPass ==
  /\ Len(mappings') \in { Len(mappings), Len(mappings) + 1 }
  /\ Len(mappings') = Len(mappings) + 1 =>
       LET new == mappings'[Len(mappings')]
       IN \A i \in 1..Len(mappings) :
            ~ ( /\ mappings[i].jointKey = new.jointKey
                /\ mappings[i].matchPass = new.matchPass )

\* C25: within one pass a joint is mapped through the first alias in registry
\* order that has any unused matching bone, and through that alias to the
\* first such bone in the caller's order, even when a later alias matches a
\* bone that comes earlier; after that first success no further alias or bone
\* is tried for the joint in that pass.
C25_AliasOrderBeforeBoneOrder ==
  [][C25_FirstAliasThenFirstBone /\ C25_OneSuccessPerJointAndPass]_vars

(* ------------------------------- C26 -------------------------------- *)

Returned26 == call.fn = "stripPrefix" /\ returned.done

\* name without the longest of these prefixes it starts with, name itself
\* when it starts with none
WithoutLeading(prefixes, name) ==
  LET found == {p \in prefixes : IsPrefixOf(p, name)}
  IN IF found = {} THEN name
     ELSE LET longest == CHOOSE p \in found : \A q \in found : Len(q) <= Len(p)
          IN SubSeq(name, Len(longest) + 1, Len(name))

\* C26: stripPrefix removes one leading occurrence of exactly the prefixes
\* 'mixamorig:', 'mixamorig_', 'DEF-', 'ORG-' or 'MCH-' and returns every
\* name that does not start with one of these five strings unchanged.
C26_FivePrefixes ==
  Returned26 =>
    returned.value
      = WithoutLeading({ "mixamorig:", "mixamorig_", "DEF-", "ORG-", "MCH-" },
                       call.args[1])

\* C26, amended: the word 'mixamorig' is removed also when neither ':' nor
\* '_' follows it; with these six prefixes stripPrefix removes one leading
\* occurrence of the longest one the name starts with, and returns every
\* other name unchanged.
C26_SixPrefixes ==
  Returned26 =>
    returned.value
      = WithoutLeading({ "mixamorig:", "mixamorig_", "mixamorig",
                         "DEF-", "ORG-", "MCH-" }, call.args[1])

\* a name that starts with the bare word
C26_Witness ==
  /\ Returned26
  /\ call.args[1] = "mixamorigHips"
  /\ returned.value = "Hips"

(* ------------------------------- C27 -------------------------------- *)

Returned27 == call.fn = "normalizeBoneName" /\ returned.done

\* the same letter in either case, or the same other character
SameButCase(c, d) ==
  \/ c = d
  \/ \E i \in 1..26 :
       { c, d } = { SubSeq("ABCDEFGHIJKLMNOPQRSTUVWXYZ", i, i),
                    SubSeq("abcdefghijklmnopqrstuvwxyz", i, i) }

\* a and b are the same but for the case of their letters and for the
\* separators '_', '.', '-', ':' and space that either may hold anywhere
RECURSIVE DiffersOnlyInCaseAndSeparators(_, _)
DiffersOnlyInCaseAndSeparators(a, b) ==
  IF Len(a) > 0 /\ SubSeq(a, 1, 1) \in { "_", ".", "-", ":", " " }
    THEN DiffersOnlyInCaseAndSeparators(SubSeq(a, 2, Len(a)), b)
  ELSE IF Len(b) > 0 /\ SubSeq(b, 1, 1) \in { "_", ".", "-", ":", " " }
    THEN DiffersOnlyInCaseAndSeparators(a, SubSeq(b, 2, Len(b)))
  ELSE IF Len(a) = 0 \/ Len(b) = 0 THEN Len(a) = Len(b)
  ELSE /\ SameButCase(SubSeq(a, 1, 1), SubSeq(b, 1, 1))
       /\ DiffersOnlyInCaseAndSeparators(SubSeq(a, 2, Len(a)), SubSeq(b, 2, Len(b)))

\* C27: normalize is a separator- and case-insensitive comparison key: any
\* two names that differ only in the case of their letters and/or in the
\* presence of the separators '_', '.', '-', ':' and space have the same
\* normalize value.
C27_KeyOfTheName ==
  Returned27 =>
    \A other \in NameSamples :
      DiffersOnlyInCaseAndSeparators(call.args[1], other)
        => normalizeBoneName(other) = returned.value

\* C27, amended: normalize is that key for the names as stripPrefix leaves
\* them: any two names whose prefix-stripped forms differ only in case and
\* separators have the same normalize value, while a prefix is recognised
\* only in its exact case and with its own separator.
C27_KeyOfTheStrippedName ==
  Returned27 =>
    \A other \in NameSamples :
      DiffersOnlyInCaseAndSeparators(stripPrefix(call.args[1]), stripPrefix(other))
        => normalizeBoneName(other) = returned.value

\* the key of a name of which another spelling, in another case and with
\* another separator, is among the names
C27_Witness ==
  /\ Returned27
  /\ call.args[1] = "Left_Hip"
  /\ returned.value = "lefthip"
  /\ "left hip" \in NameSamples
  /\ DiffersOnlyInCaseAndSeparators("Left_Hip", "left hip")

(* ------------------------------- C28 -------------------------------- *)

\* C28: a mapping is recorded under the strictest rule that applies to its
\* pair: when allowedJoints contains only registry joints, the bone of a
\* mapping made at pass k > 1 satisfies the rule of no earlier pass for any
\* alias of the joint; a 'word-boundary' mapping never has the normalized
\* form of an alias of its joint.
C28_StrictestRule ==
  (Ended /\ Elems(Attempted) \subseteq RegistryJoints) =>
    \A i \in 1..Len(mappings) :
      \A earlier \in 1..(PassNo(mappings[i].matchPass) - 1) :
        ~ Matches(earlier, mappings[i].jointKey, mappings[i].boneName)

\* a returned result with a normalized and a word-boundary mapping, the
\* bone of the latter holding the tokens of an alias of its joint
C28_Witness ==
  /\ pc = "done"
  /\ Elems(Attempted) \subseteq RegistryJoints
  /\ \E i, j \in 1..Len(mappings) :
       /\ mappings[i].matchPass = "normalized"
       /\ mappings[j].matchPass = "word-boundary"
       /\ Matches(4, mappings[j].jointKey, mappings[j].boneName)

(* ------------------------------- C29 -------------------------------- *)

RECURSIVE JoinTokens(_)
JoinTokens(tokens) ==
  IF Len(tokens) = 0 THEN "" ELSE Head(tokens) \o JoinTokens(Tail(tokens))

\* the preprocessed aliases of all joints, and with them the bones of the call
AllPatterns ==
  UNION { { preprocessedPatterns[j][i] : i \in 1..Len(preprocessedPatterns[j]) }
            : j \in RegistryJoints }

AliasTokensJoinToNormalized ==
  \A pattern \in AllPatterns : JoinTokens(pattern.tokens) = pattern.normalized

\* C29: the tokens of tokenize(name), concatenated in order, are exactly
\* normalize(name), for the aliases and for the bones of every call as they
\* are preprocessed; hence names with equal token lists have equal normalized
\* forms, and every pass-4 mapping of a result matches an alias whose token
\* list is strictly shorter than the bone's token list.
C29_TokensJoinToNormalized ==
  /\ AliasTokensJoinToNormalized
  /\ (pc = "running" /\ pass = 1 /\ ji = 1) =>
       \A k \in 1..Len(bones) :
         /\ bones[k] = Preprocess(boneNames[k])
         /\ JoinTokens(bones[k].tokens) = bones[k].normalized
         /\ \A pattern \in AllPatterns :
              bones[k].tokens = pattern.tokens
                => bones[k].normalized = pattern.normalized
  /\ pc = "done" =>
       \A i \in 1..Len(mappings) :
         mappings[i].matchPass = "word-boundary" =>
           LET boneTokens == tokenize(mappings[i].boneName)
               matched == { alias \in Elems(BONE_PATTERNS[mappings[i].jointKey]) :
                              wordBoundaryMatch(tokenize(alias), boneTokens) }
           IN /\ matched # {}
              /\ \A alias \in matched : Len(tokenize(alias)) < Len(boneTokens)

\* a returned result for the bones with capitals, digits and separators,
\* one of which pass 4 mapped
C29_Witness ==
  /\ pc = "done"
  /\ boneNames = TokenRig
  /\ \E i \in 1..Len(mappings) :
       /\ mappings[i].matchPass = "word-boundary"
       /\ mappings[i].boneName = "mixamorig_Left.Fore-Arm Roll:x"

(* ------------------------------- C30 -------------------------------- *)

\* C30: the result only refers to the caller's input: every mapping's
\* boneName is an element of boneNames and its jointKey an element of the
\* attempted joint list; unmappedJoints is the attempted joint list, in its
\* order, with exactly the mapped joints removed, so no joint is both in
\* mappings and in unmappedJoints.
C30_ResultRefersToInput ==
  /\ \A i \in 1..Len(mappings) :
       /\ mappings[i].boneName \in Elems(boneNames)
       /\ mappings[i].jointKey \in Elems(Attempted)
  /\ pc = "done" =>
       /\ unmappedJoints = SelectSeq(Attempted, LAMBDA j : j \notin MappedJointKeys)
       /\ Elems(unmappedJoints) \cap MappedJointKeys = {}
       /\ Elems(unmappedBones) \subseteq Elems(boneNames)

\* a returned result in which a mapped joint stands, in the attempted list,
\* between two joints that are reported unmapped
C30_Witness ==
  /\ pc = "done"
  /\ \E a, b, c \in 1..Len(Attempted) :
       /\ a < b
       /\ b < c
       /\ Attempted[a] \in Elems(unmappedJoints)
       /\ Attempted[b] \in MappedJointKeys
       /\ Attempted[c] \in Elems(unmappedJoints)
=============================================================================
